---- MODULE Spec2Model ----
(***************************************************************************)
(* Model of MultiIndyLedgerManagerProvider                                 *)
(* (aries_cloudagent/ledger/multiple_ledger/manager_provider.py).          *)
(*                                                                         *)
(* The provider owns the memoization dict _inst and a fixed root_profile.  *)
(* provide(settings, injector) either returns the cached manager or builds *)
(* two OrderedDicts of ledger instances plus a write designation, loads    *)
(* the manager class and caches the constructed manager.                   *)
(*                                                                         *)
(* Python values are modelled as follows:                                  *)
(*   - an OrderedDict is a sequence of [key, value] records with pairwise  *)
(*     distinct keys, in insertion order;                                  *)
(*   - the tuple (ledger_id, ledger_instance) is the record [id, instance];*)
(*   - a constructed object carries a field obj, its allocation identity   *)
(*     <<n, i>>: the i-th object allocated by the n-th construction pass   *)
(*     of this provider (reference equality is equality of obj);           *)
(*   - a raised exception is the outcome of the call, named by its class.  *)
(* The pool arguments keepalive, read_only, socks_proxy and                *)
(* genesis_transactions of a config entry are passed through to the pool   *)
(* constructor unread and are not represented.                             *)
(***************************************************************************)
EXTENDS Integers, Sequences, FiniteSets, TLC

VARIABLES
    root_profile,   \* self.root_profile: the kind of the root profile
    _inst,          \* self._inst: dict manager class path -> manager
    rootLedger,     \* what root_profile.inject_or(BaseLedger) returns
    loadable,       \* class paths ClassLoader.load_class can resolve
    nbuild,         \* number of construction passes started so far
    lastCall,       \* outcome and effects of the most recent provide() call
    callers         \* the provide() calls in progress, one frame per thread

vars ==
    <<root_profile, _inst, rootLedger, loadable, nbuild, lastCall, callers>>

-----------------------------------------------------------------------------
(* Bounds *)

MaxLen == 2         \* longest ledger_config_list
MaxBuilds == 2      \* construction passes per behaviour

-----------------------------------------------------------------------------
(* Values *)

None == [none |-> TRUE]

basic_manager_path ==
    "aries_cloudagent.ledger.multiple_ledger.indy_manager.MultiIndyLedgerManager"

askar_manager_path ==
    "aries_cloudagent.ledger.multiple_ledger.indy_vdr_manager.MultiIndyVDRLedgerManager"

MANAGER_TYPES ==
    ("basic" :> basic_manager_path) @@ ("askar-profile" :> askar_manager_path)

ManagerClasses == {basic_manager_path, askar_manager_path}

ProfileKinds == {"IndySdkProfile", "AskarProfile", "Profile"}

ConfigListKey == "ledger.ledger_config_list"

GenesisKey == "ledger.genesis_transactions"

PoolNames == {"main"}

\* The ledger bound to BaseLedger on the root profile at startup.
StartupLedger ==
    [obj |-> <<0, 0>>, class |-> "BaseLedger",
     pool |-> [class |-> "LedgerPool", name |-> "main", cache |-> None],
     profile |-> "root"]

StartupId == "startup::" \o StartupLedger.pool.name

LedgerIds == <<"L1", "L2", StartupId>>

IdSet == {LedgerIds[i] : i \in 1..Len(LedgerIds)}

ConfigEntries ==
    [id : IdSet, pool_name : PoolNames,
     is_production : BOOLEAN, is_write : BOOLEAN]

RECURSIVE ListsOfLen(_)
ListsOfLen(n) ==
    IF n = 0 THEN {<<>>}
    ELSE {Append(l, e) : l \in ListsOfLen(n - 1), e \in ConfigEntries}

ConfigLists == UNION {ListsOfLen(n) : n \in 0..MaxLen}

\* Lists whose i-th entry has the i-th id of LedgerIds.
OrderedIdLists ==
    {l \in ConfigLists : \A i \in 1..Len(l) : l[i].id = LedgerIds[i]}

MakeSettings(lists) ==
    {(ConfigListKey :> l) @@ (GenesisKey :> g) : l \in lists, g \in BOOLEAN}
    \cup {(GenesisKey :> g) : g \in BOOLEAN}

AllSettings == MakeSettings(ConfigLists)

CallSettings == MakeSettings(OrderedIdLists)

TheCache == [class |-> "BaseCache"]

\* The injector of a running agent, which has a cache bound.
AgentInjector == [BaseCache |-> TheCache]

Injectors == {[BaseCache |-> None], AgentInjector}

-----------------------------------------------------------------------------
(* collections.OrderedDict *)

Keys(d) == [j \in 1..Len(d) |-> d[j].key]

KeySet(d) == {d[j].key : j \in 1..Len(d)}

HasKey(d, k) == k \in KeySet(d)

Lookup(d, k) == d[CHOOSE j \in 1..Len(d) : d[j].key = k].value

\* Variant of SetItem that puts a new key first.
SetItem_front(d, k, v) ==
    IF HasKey(d, k)
    THEN [j \in 1..Len(d) |->
             IF d[j].key = k THEN [key |-> k, value |-> v] ELSE d[j]]
    ELSE <<[key |-> k, value |-> v]>> \o d

\* d[k] = v: an existing key keeps its position, a new key goes last.
SetItem(d, k, v) ==
    IF HasKey(d, k)
    THEN [j \in 1..Len(d) |->
             IF d[j].key = k THEN [key |-> k, value |-> v] ELSE d[j]]
    ELSE Append(d, [key |-> k, value |-> v])

\* d.move_to_end(k, last=False), for a key that is present.
MoveToFront(d, k) ==
    LET j == CHOOSE i \in 1..Len(d) : d[i].key = k
    IN  <<d[j]>> \o SubSeq(d, 1, j - 1) \o SubSeq(d, j + 1, Len(d))

-----------------------------------------------------------------------------
(* provide(): variant selection and cache test *)

\* Variant of manager_type whose final else falls back to "basic".
manager_type_default(profile) ==
    IF profile = "AskarProfile" THEN [type |-> "askar-profile"]
    ELSE [type |-> "basic"]

\* Lines 47-55: the manager type of the root profile, None when the profile
\* is of neither recognized kind (the call then raises).
manager_type(profile) ==
    IF profile = "IndySdkProfile" THEN [type |-> "basic"]
    ELSE IF profile = "AskarProfile" THEN [type |-> "askar-profile"]
    ELSE None

\* Variant of InCache that never finds the manager.
InCache_never(inst, manager_class) == FALSE

\* Line 59: manager_class in self._inst
InCache(inst, manager_class) == manager_class \in DOMAIN inst

\* settings.get_value(key) is None for an unset key; the set of keys a call
\* has read and the values it saw are recorded as Restrict(settings, keys).
Restrict(settings, keys) ==
    [k \in (keys \cap DOMAIN settings) |-> settings[k]]

\* injector.inject_or(BaseCache)
inject_or(injector) == injector.BaseCache

PoolClass(mtype) ==
    IF mtype = "basic" THEN "IndySdkLedgerPool" ELSE "IndyVdrLedgerPool"

LedgerClass(mtype) ==
    IF mtype = "basic" THEN "IndySdkLedger" ELSE "IndyVdrLedger"

-----------------------------------------------------------------------------
(* provide(): the loop over ledger_config_list *)

\* State of a construction pass before the first entry is read
\* (lines 63-66 / 111-114), with counters of the effects performed.
EmptyBuild ==
    [production |-> <<>>, non_production |-> <<>>,
     write_ledger_info |-> None,
     injects |-> 0, pools |-> 0, ledgers |-> 0]

\* Variant of WriteAfterEntry that keeps the first write entry.
WriteAfterEntry_first(write_ledger_info, config, ledger_instance) ==
    IF config.is_write /\ write_ledger_info = None
    THEN [id |-> config.id, instance |-> ledger_instance]
    ELSE write_ledger_info

\* Lines 89-90 / 137-138
WriteAfterEntry(write_ledger_info, config, ledger_instance) ==
    IF config.is_write
    THEN [id |-> config.id, instance |-> ledger_instance]
    ELSE write_ledger_info

\* Lines 91-94 / 139-142: the production partition after the entry
ProductionAfterEntry(production, config, ledger_instance) ==
    IF config.is_production
    THEN SetItem(production, config.id, ledger_instance)
    ELSE production

\* Variant of NonProductionAfterEntry that lacks the else: every entry is
\* also inserted into the non-production partition.
NonProductionAfterEntry_always(non_production, config, ledger_instance) ==
    SetItem(non_production, config.id, ledger_instance)

\* Lines 91-94 / 139-142: the non-production partition after the entry
NonProductionAfterEntry(non_production, config, ledger_instance) ==
    IF config.is_production
    THEN non_production
    ELSE SetItem(non_production, config.id, ledger_instance)

\* Variant of ForConfig with the injector lookup hoisted out of the loop.
ForConfig_hoisted(st, config, i, injector, mtype, profile, n) ==
    LET ledger_instance ==
            [obj |-> <<n, i>>, class |-> LedgerClass(mtype),
             pool |-> [class |-> PoolClass(mtype), name |-> config.pool_name,
                       cache |-> inject_or(injector)],
             profile |-> profile]
    IN  [production |->
             ProductionAfterEntry(st.production, config, ledger_instance),
         non_production |->
             NonProductionAfterEntry(st.non_production, config,
                                     ledger_instance),
         write_ledger_info |->
             WriteAfterEntry(st.write_ledger_info, config, ledger_instance),
         injects |-> st.injects,
         pools |-> st.pools + 1,
         ledgers |-> st.ledgers + 1]

\* One iteration of the loop (lines 68-94 / 116-142) for the i-th entry of
\* construction pass n.
ForConfig(st, config, i, injector, mtype, profile, n) ==
    LET cache == inject_or(injector)
        ledger_pool ==
            [class |-> PoolClass(mtype), name |-> config.pool_name,
             cache |-> cache]
        ledger_instance ==
            [obj |-> <<n, i>>, class |-> LedgerClass(mtype),
             pool |-> ledger_pool, profile |-> profile]
    IN  [production |->
             ProductionAfterEntry(st.production, config, ledger_instance),
         non_production |->
             NonProductionAfterEntry(st.non_production, config,
                                     ledger_instance),
         write_ledger_info |->
             WriteAfterEntry(st.write_ledger_info, config, ledger_instance),
         injects |-> st.injects + 1,
         pools |-> st.pools + 1,
         ledgers |-> st.ledgers + 1]

\* The loop of lines 67-94 / 115-142 over the first k entries, in list order.
RECURSIVE ForLoop(_, _, _, _, _, _)
ForLoop(list, k, injector, mtype, profile, n) ==
    IF k = 0 THEN EmptyBuild
    ELSE ForConfig(ForLoop(list, k - 1, injector, mtype, profile, n),
                   list[k], k, injector, mtype, profile, n)

-----------------------------------------------------------------------------
(* provide(): the startup ledger (lines 95-103 / 143-151) *)

\* Variant of FallbackClaimsWrite without the test.
FallbackClaimsWrite_always(write_ledger_info) == TRUE

\* Lines 99-100 / 147-148: "if not write_ledger_info"
FallbackClaimsWrite(write_ledger_info) == write_ledger_info = None

\* The partition on which move_to_end(ledger_id, last=False) is called:
\* line 101 names the production dict, line 149 the non-production dict.
MoveTarget(mtype) ==
    IF mtype = "basic" THEN "production" ELSE "non_production"

\* The body of "if settings.get_value('ledger.genesis_transactions')", given
\* the value ledger_instance returned by root_profile.inject_or(BaseLedger).
\* error names the exception that leaves the block, "" when none does.
GenesisBlock(st, mtype, ledger_instance) ==
    IF ledger_instance = None
    THEN \* line 97 / 145: None has no attribute pool
         [error |-> "AttributeError", production |-> st.production,
          non_production |-> st.non_production,
          write_ledger_info |-> st.write_ledger_info]
    ELSE LET ledger_id == "startup::" \o ledger_instance.pool.name
             production == SetItem(st.production, ledger_id, ledger_instance)
         IN  IF ~FallbackClaimsWrite(st.write_ledger_info)
             THEN [error |-> "", production |-> production,
                   non_production |-> st.non_production,
                   write_ledger_info |-> st.write_ledger_info]
             ELSE LET write_ledger_info ==
                          [id |-> ledger_id, instance |-> ledger_instance]
                  IN  IF MoveTarget(mtype) = "production"
                      THEN [error |-> "",
                            production |-> MoveToFront(production, ledger_id),
                            non_production |-> st.non_production,
                            write_ledger_info |-> write_ledger_info]
                      ELSE IF HasKey(st.non_production, ledger_id)
                      THEN [error |-> "", production |-> production,
                            non_production |->
                                MoveToFront(st.non_production, ledger_id),
                            write_ledger_info |-> write_ledger_info]
                      ELSE \* move_to_end of a missing key
                           [error |-> "KeyError", production |-> production,
                            non_production |-> st.non_production,
                            write_ledger_info |-> write_ledger_info]

-----------------------------------------------------------------------------
(* provide(): the whole call *)

\* Variant of LoadClass that always finds a class.
LoadClass_found(manager_class, classes) == TRUE

\* ClassLoader.load_class(manager_class) finds the class
LoadClass(manager_class, classes) == manager_class \in classes

\* Lines 104-109 / 152-157: the constructed manager, the n-th pass's object 0
NewManager(manager_class, profile, gb, n) ==
    [obj |-> <<n, 0>>, class |-> manager_class, profile |-> profile,
     production_ledgers |-> gb.production,
     non_production_ledgers |-> gb.non_production,
     write_ledger_info |-> gb.write_ledger_info]

\* Variant of Store that forgets to keep the manager.
Store_skip(inst, manager_class, manager) == inst

\* self._inst[manager_class] = manager
Store(inst, manager_class, manager) ==
    [k \in DOMAIN inst \cup {manager_class} |->
        IF k = manager_class THEN manager ELSE inst[k]]

\* The record of a call: how it ended, what it returned and the effects it
\* had on its collaborators.
\*   reads          settings keys read, in order
\*   seen           the values those reads returned (unset keys omitted)
\*   injects        calls of injector.inject_or
\*   pools, ledgers pool and ledger objects constructed
\*   root_injected  values returned by root_profile.inject_or(BaseLedger)
\*   loads          calls of ClassLoader.load_class
\*   managers       manager objects constructed
CallRecord(outcome, result, reads, seen, st, root_injected, loads, managers) ==
    [outcome |-> outcome, result |-> result,
     reads |-> reads, seen |-> seen,
     injects |-> st.injects, pools |-> st.pools, ledgers |-> st.ledgers,
     root_injected |-> root_injected, loads |-> loads,
     managers |-> managers]

NoCall ==
    CallRecord("none", None, <<>>, <<>>, EmptyBuild, <<>>, 0, 0)

\* Variant of GenesisSet that takes the startup block unconditionally.
GenesisSet_always(settings) == TRUE

\* Line 95 / 143: settings.get_value("ledger.genesis_transactions") is set
GenesisSet(settings) ==
    GenesisKey \in DOMAIN settings /\ settings[GenesisKey]

\* Variant of Raise that memoizes the failure under every manager class.
Raise_memoized(error, inst, reads, seen, st, root_injected, loads) ==
    [inst |-> [k \in ManagerClasses |-> None],
     call |-> CallRecord(error, None, reads, seen, st, root_injected,
                         loads, 0)]

\* A raised exception leaves self._inst as it was and returns nothing.
Raise(error, inst, reads, seen, st, root_injected, loads) ==
    [inst |-> inst,
     call |-> CallRecord(error, None, reads, seen, st, root_injected,
                         loads, 0)]

\* Lines 61-161 for a recognized profile and a cache miss: the n-th
\* construction pass.  The result is the dict after the call and the record
\* of the call.
Build(profile, inst, settings, injector, fallback, classes, n) ==
    LET mtype == manager_type(profile).type
        manager_class == MANAGER_TYPES[mtype]
    IN
    IF ConfigListKey \notin DOMAIN settings
    THEN \* line 67 / 115: iterating None
         Raise("TypeError", inst, <<ConfigListKey>>,
               Restrict(settings, {ConfigListKey}), EmptyBuild, <<>>, 0)
    ELSE
    LET ledger_config_list == settings[ConfigListKey]
        st == ForLoop(ledger_config_list, Len(ledger_config_list), injector,
                      mtype, profile, n)
        reads == <<ConfigListKey, GenesisKey>>
        seen == Restrict(settings, {ConfigListKey, GenesisKey})
        genesis == GenesisSet(settings)
        gb == IF genesis THEN GenesisBlock(st, mtype, fallback)
              ELSE [error |-> "", production |-> st.production,
                    non_production |-> st.non_production,
                    write_ledger_info |-> st.write_ledger_info]
        root_injected == IF genesis THEN <<fallback>> ELSE <<>>
    IN
    IF gb.error # ""
    THEN Raise(gb.error, inst, reads, seen, st, root_injected, 0)
    ELSE IF ~LoadClass(manager_class, classes)
    THEN \* lines 158-161: ClassNotFoundError re-raised as InjectionError
         Raise("InjectionError", inst, reads, seen, st, root_injected, 1)
    ELSE LET manager == NewManager(manager_class, profile, gb, n)
         IN  [inst |-> Store(inst, manager_class, manager),
              call |-> CallRecord("ok", manager, reads, seen, st,
                                  root_injected, 1, 1)]

\* provide(settings, injector) on a provider with the given root profile and
\* dict, as the n-th construction pass if it comes to one.
provide(profile, inst, settings, injector, fallback, classes, n) ==
    IF manager_type(profile) = None
    THEN Raise("MultipleLedgerManagerError", inst, <<>>, <<>>, EmptyBuild,
               <<>>, 0)
    ELSE LET manager_class == MANAGER_TYPES[manager_type(profile).type]
         IN  IF InCache(inst, manager_class)
             THEN \* line 163
                  [inst |-> inst,
                   call |-> CallRecord("ok", inst[manager_class], <<>>, <<>>,
                                       EmptyBuild, <<>>, 0, 0)]
             ELSE Build(profile, inst, settings, injector, fallback,
                        classes, n)

-----------------------------------------------------------------------------
(* The provider as a state machine *)

\* Threads that may call provide() on the same provider at the same time.
Threads == {"t1", "t2"}

\* The frame of a thread: where it stands in provide() (pc), the manager
\* object its own construction pass stored (built) and the manager object it
\* returned (returned); NoObject where there is none.
NoObject == <<>>

IdleFrame == [pc |-> "idle", built |-> NoObject, returned |-> NoObject]

\* No call is in progress: a sequential caller runs provide() in one step.
NoCallers == [t \in Threads |-> IdleFrame]

\* __init__(root_profile), lines 39-42, in an environment where the startup
\* ledger may or may not be bound and the manager classes may or may not be
\* importable.
Init ==
    /\ root_profile \in ProfileKinds
    /\ _inst = <<>>
    /\ rootLedger \in {None, StartupLedger}
    /\ loadable \in {{}, ManagerClasses}
    /\ nbuild = 0
    /\ lastCall = NoCall
    /\ callers = NoCallers

\* Does this call start a construction pass?
Constructs(profile, inst) ==
    /\ manager_type(profile) # None
    /\ ~InCache(inst, MANAGER_TYPES[manager_type(profile).type])

\* One sequential call of provide(settings, injector).
Provide(settings, injector) ==
    LET building == Constructs(root_profile, _inst)
        done == provide(root_profile, _inst, settings, injector, rootLedger,
                        loadable, nbuild + 1)
    IN  /\ building => nbuild < MaxBuilds
        /\ lastCall' = done.call
        /\ _inst' = done.inst
        /\ nbuild' = IF building THEN nbuild + 1 ELSE nbuild
        /\ UNCHANGED <<root_profile, rootLedger, loadable, callers>>

\* The application binds or unbinds BaseLedger on the root profile.
BindLedger ==
    /\ rootLedger' \in {None, StartupLedger} \ {rootLedger}
    /\ UNCHANGED <<root_profile, _inst, loadable, nbuild, lastCall, callers>>

\* The manager modules become importable or stop being so.
ChangeClasses ==
    /\ loadable' = ManagerClasses \ loadable
    /\ UNCHANGED <<root_profile, _inst, rootLedger, nbuild, lastCall, callers>>

Next ==
    \/ \E settings \in CallSettings : Provide(settings, AgentInjector)
    \/ BindLedger
    \/ ChangeClasses

Spec == Init /\ [][Next]_vars

\* Variant of Store with setdefault semantics: an existing entry is kept.
RaceStore_first(inst, manager_class, manager) ==
    IF manager_class \in DOMAIN inst THEN inst
    ELSE [k \in DOMAIN inst \cup {manager_class} |->
             IF k = manager_class THEN manager ELSE inst[k]]

\* Line 104 / 152 as executed by a thread that passed the test at line 59:
\* a plain dict assignment, whatever another thread stored meanwhile.
RaceStore(inst, manager_class, manager) == Store(inst, manager_class, manager)

\* Lines 47-59 in thread t: variant selection and the cache test.
TestCache(t) ==
    /\ callers[t].pc = "idle"
    /\ callers' =
          [callers EXCEPT ![t].pc =
              IF manager_type(root_profile) = None THEN "raised"
              ELSE IF InCache(_inst,
                              MANAGER_TYPES[manager_type(root_profile).type])
              THEN "return"
              ELSE "build"]
    /\ UNCHANGED <<root_profile, _inst, rootLedger, loadable, nbuild,
                   lastCall>>

\* Lines 60-161 in thread t, which found no manager at line 59: the
\* construction pass and the assignment to self._inst.
Construct(t, settings, injector) ==
    /\ callers[t].pc = "build"
    /\ nbuild < MaxBuilds
    /\ LET done == Build(root_profile, _inst, settings, injector, rootLedger,
                         loadable, nbuild + 1)
           manager_class == MANAGER_TYPES[manager_type(root_profile).type]
       IN  /\ lastCall' = done.call
           /\ IF done.call.outcome = "ok"
              THEN /\ _inst' = RaceStore(_inst, manager_class,
                                         done.call.result)
                   /\ callers' = [callers EXCEPT
                                     ![t].pc = "return",
                                     ![t].built = done.call.result.obj]
              ELSE /\ _inst' = _inst
                   /\ callers' = [callers EXCEPT ![t].pc = "raised"]
    /\ nbuild' = nbuild + 1
    /\ UNCHANGED <<root_profile, rootLedger, loadable>>

\* Line 163 in thread t: return self._inst[manager_class].
Return(t) ==
    /\ callers[t].pc = "return"
    /\ callers' =
          [callers EXCEPT
              ![t].pc = "done",
              ![t].returned =
                  _inst[MANAGER_TYPES[manager_type(root_profile).type]].obj]
    /\ UNCHANGED <<root_profile, _inst, rootLedger, loadable, nbuild,
                   lastCall>>

\* Two threads, each calling provide() once, preempted between the cache
\* test, the assignment to self._inst and the return.
NextRace ==
    \/ \E t \in Threads : TestCache(t)
    \/ \E t \in Threads, settings \in CallSettings :
          Construct(t, settings, AgentInjector)
    \/ \E t \in Threads : Return(t)

SpecRace == Init /\ [][NextRace]_vars

\* A fresh provider receiving a single call, over all settings.
NextBuild ==
    /\ lastCall = NoCall
    /\ \E settings \in AllSettings, injector \in Injectors :
          Provide(settings, injector)

SpecBuild == Init /\ [][NextBuild]_vars

-----------------------------------------------------------------------------
(* Vocabulary of the properties *)

\* The implementation key of this provider's variant.
ManagerKey == MANAGER_TYPES[manager_type(root_profile).type]

\* The last call ran a construction pass to the end and returned its manager.
BuiltManager == lastCall.outcome = "ok" /\ lastCall.reads # <<>>

\* The last call returned the manager found in the dict.
CacheHit == lastCall.outcome = "ok" /\ lastCall.reads = <<>>

\* The settings the last construction pass read.
CallList == lastCall.seen[ConfigListKey]

CallGenesis == lastCall.seen[GenesisKey]

EntryIds(list) == {list[i].id : i \in 1..Len(list)}

DistinctIds(list) ==
    \A i, j \in 1..Len(list) : i # j => list[i].id # list[j].id

HasWriteEntry(list) == \E i \in 1..Len(list) : list[i].is_write

\* The synthetic id of the ledger the last call obtained from the root
\* profile.
FallbackId == "startup::" \o lastCall.root_injected[1].pool.name

\* The ids the last construction pass is expected to register.
ExpectedIds ==
    EntryIds(CallList) \cup (IF CallGenesis THEN {FallbackId} ELSE {})

\* No configuration entry uses the synthetic id of the startup ledger.
NoIdClash == CallGenesis => FallbackId \notin EntryIds(CallList)

\* Partition keys are the entry ids, split by is_production, without overlap.
PartitionsMatch(manager, list) ==
    LET P == KeySet(manager.production_ledgers)
        N == KeySet(manager.non_production_ledgers)
    IN  /\ P \cap N = {}
        /\ P \cup N = ExpectedIds
        /\ Cardinality(P) = Len(manager.production_ledgers)
        /\ Cardinality(N) = Len(manager.non_production_ledgers)
        /\ \A i \in 1..Len(list) : list[i].id \in P <=> list[i].is_production

-----------------------------------------------------------------------------
(* C1 *)

\* C1: once a provide() call has returned a manager, every later call on the
\* same provider returns that same manager object, whatever settings the
\* later call is given.
C1_SameManagerOnLaterCalls ==
    [][(lastCall.outcome = "ok" /\ lastCall' # lastCall)
          => (/\ lastCall'.outcome = "ok"
              /\ lastCall'.result.obj = lastCall.result.obj)]_vars

\* A later call has returned the cached manager.
C1_Witness == CacheHit /\ nbuild = 1 /\ lastCall.result.obj = <<1, 0>>

-----------------------------------------------------------------------------
(* C2 *)

\* C2 as stated: for every configuration list with pairwise distinct ids the
\* built manager's partitions are disjoint, together hold exactly the entry
\* ids (plus the startup id when the genesis flag is set), and an entry id is
\* in the production partition iff the entry is_production.
C2_PartitionsForDistinctIds ==
    (BuiltManager /\ DistinctIds(CallList))
        => PartitionsMatch(lastCall.result, CallList)

\* C2 amended: the same, for lists with pairwise distinct ids none of which
\* is the synthetic id of the startup ledger when the genesis flag is set.
C2_PartitionsNoIdClash ==
    (BuiltManager /\ DistinctIds(CallList) /\ NoIdClash)
        => PartitionsMatch(lastCall.result, CallList)

\* A profile-based manager built from a production and a non-production
\* entry plus the startup ledger.
C2_Witness ==
    /\ BuiltManager /\ root_profile = "AskarProfile"
    /\ DistinctIds(CallList) /\ NoIdClash /\ CallGenesis
    /\ Len(lastCall.result.production_ledgers) = 2
    /\ Len(lastCall.result.non_production_ledgers) = 1

-----------------------------------------------------------------------------
(* C3 *)

\* C3: a built manager holds at most one write designation; when some entry
\* has is_write, the designation is the (id, instance) of such an entry, so
\* the startup ledger has not replaced it.
C3_WriteDesignationFromList ==
    BuiltManager =>
        LET w == lastCall.result.write_ledger_info
        IN  /\ w = None \/ DOMAIN w = {"id", "instance"}
            /\ HasWriteEntry(CallList) =>
                  /\ w # None
                  /\ \E i \in 1..Len(CallList) :
                        /\ CallList[i].is_write
                        /\ w.id = CallList[i].id
                        /\ w.instance.obj = <<nbuild, i>>

\* A manager built with the startup ledger injected next to a write entry.
C3_Witness ==
    /\ BuiltManager /\ CallGenesis /\ HasWriteEntry(CallList)
    /\ HasKey(lastCall.result.production_ledgers, FallbackId)

-----------------------------------------------------------------------------
(* C4 *)

\* The last call read both settings keys, i.e. it ran the loop to its end.
ReadSettings == lastCall.reads = <<ConfigListKey, GenesisKey>>

\* The sequence s without repetitions, first occurrences kept.
RECURSIVE Dedup(_)
Dedup(s) ==
    IF s = <<>> THEN <<>>
    ELSE LET r == Dedup(SubSeq(s, 1, Len(s) - 1))
         IN  IF \E j \in 1..Len(r) : r[j] = s[Len(s)] THEN r
             ELSE Append(r, s[Len(s)])

\* The ids of the entries with the given is_production, in list order.
RECURSIVE IdsWhere(_, _)
IdsWhere(list, flag) ==
    IF list = <<>> THEN <<>>
    ELSE LET r == IdsWhere(SubSeq(list, 1, Len(list) - 1), flag)
             e == list[Len(list)]
         IN  IF e.is_production = flag THEN Append(r, e.id) ELSE r

\* The write designation is the ledger obtained from the root profile.
FallbackIsWrite(manager) ==
    manager.write_ledger_info =
        [id |-> FallbackId, instance |-> lastCall.root_injected[1]]

\* C4: for both variants, when the genesis flag is set, the root profile
\* exposes the startup ledger and no entry has is_write, provide() returns a
\* manager whose write designation is the startup ledger and whose production
\* partition starts with the startup id, followed by the production entries
\* in list order.  Stated for a resolvable manager class and for lists with
\* pairwise distinct ids, none of them the startup id.
C4_FallbackWriteBothVariants ==
    (/\ ReadSettings
     /\ CallGenesis
     /\ lastCall.root_injected = <<StartupLedger>>
     /\ ~HasWriteEntry(CallList)
     /\ DistinctIds(CallList) /\ NoIdClash
     /\ ManagerKey \in loadable)
        => /\ BuiltManager
           /\ FallbackIsWrite(lastCall.result)
           /\ Keys(lastCall.result.production_ledgers) =
                  <<FallbackId>> \o IdsWhere(CallList, TRUE)

-----------------------------------------------------------------------------
(* C5 *)

\* The keys of partition d that are ids of configuration entries, in order.
EntryKeys(d, list) ==
    SelectSeq(Keys(d), LAMBDA k : k \in EntryIds(list))

\* Entry keys of both partitions follow the list order.
EntryOrderKept(manager, list) ==
    /\ EntryKeys(manager.production_ledgers, list) =
           Dedup(IdsWhere(list, TRUE))
    /\ EntryKeys(manager.non_production_ledgers, list) =
           Dedup(IdsWhere(list, FALSE))

\* The startup ledger, injected next to a write entry, is the last
\* production key.
FallbackLastBehindWriteEntry(manager, list) ==
    (CallGenesis /\ HasWriteEntry(list)) =>
        manager.production_ledgers[Len(manager.production_ledgers)].key
            = FallbackId

\* C5 as stated: in every built manager the entry keys of each partition
\* keep the list order; the startup ledger injected while a list entry holds
\* the write designation is the last production key, and it is the first
\* production key only when it became the write designation.
C5_OrderAndFallbackPosition ==
    BuiltManager =>
        /\ EntryOrderKept(lastCall.result, CallList)
        /\ FallbackLastBehindWriteEntry(lastCall.result, CallList)
        /\ (CallGenesis
              /\ lastCall.result.production_ledgers[1].key = FallbackId)
               => FallbackIsWrite(lastCall.result)

\* C5 amended: in every built manager whose list has no entry with the
\* startup id, the entry keys of each partition keep the list order; the
\* startup ledger injected while a list entry holds the write designation is
\* the last production key, and it stands before the key of a list entry
\* only when it became the write designation.
C5_OrderAndFallbackNoIdClash ==
    (BuiltManager /\ NoIdClash) =>
        /\ EntryOrderKept(lastCall.result, CallList)
        /\ FallbackLastBehindWriteEntry(lastCall.result, CallList)
        /\ CallGenesis =>
              \A j \in 1..Len(lastCall.result.production_ledgers) :
                 (/\ lastCall.result.production_ledgers[j].key = FallbackId
                  /\ j < Len(lastCall.result.production_ledgers))
                     => FallbackIsWrite(lastCall.result)

\* Two production entries, one of them the write ledger, with the startup
\* ledger behind them.
C5_Witness ==
    /\ BuiltManager /\ NoIdClash /\ CallGenesis /\ HasWriteEntry(CallList)
    /\ Keys(lastCall.result.production_ledgers) = <<"L2", "L1", FallbackId>>

-----------------------------------------------------------------------------
(* C6 *)

\* The typed errors this provider raises itself (lines 52 and 159).
ConfigurationErrors == {"MultipleLedgerManagerError", "InjectionError"}

\* The last call touched none of its collaborators.
NoEffects ==
    /\ lastCall.reads = <<>> /\ lastCall.seen = <<>>
    /\ lastCall.injects = 0 /\ lastCall.pools = 0 /\ lastCall.ledgers = 0
    /\ lastCall.root_injected = <<>>
    /\ lastCall.loads = 0 /\ lastCall.managers = 0

\* C6: with a root profile of neither recognized kind, every provide() call
\* ends in the provider's typed error before any setting is read or any
\* object constructed, and self._inst stays empty.
C6_UnrecognizedRootFails ==
    root_profile \notin {"IndySdkProfile", "AskarProfile"} =>
        /\ lastCall.outcome \in {"none", "MultipleLedgerManagerError"}
        /\ lastCall.result = None
        /\ NoEffects
        /\ DOMAIN _inst = {}
        /\ nbuild = 0

\* A call on a provider with an unrecognized root profile has failed.
C6_Witness ==
    /\ root_profile = "Profile"
    /\ lastCall.outcome = "MultipleLedgerManagerError"

-----------------------------------------------------------------------------
(* C7 *)

\* Every id the construction pass read is a key of the returned manager.
Populated ==
    KeySet(lastCall.result.production_ledgers)
        \cup KeySet(lastCall.result.non_production_ledgers) = ExpectedIds

\* C7: a provide() call either returns a manager that is stored in
\* self._inst under the variant's key (fully populated when the call built
\* it), or it raises, returns nothing and leaves self._inst as it was.
C7_AllOrNothing ==
    [][IF lastCall'.outcome = "ok"
       THEN /\ InCache(_inst', ManagerKey)
            /\ _inst'[ManagerKey] = lastCall'.result
            /\ BuiltManager' => Populated'
       ELSE /\ lastCall'.result = None
            /\ _inst' = _inst]_vars

\* A call has failed after constructing two ledgers, and nothing is cached.
C7_Witness ==
    /\ lastCall.outcome \notin {"none", "ok"}
    /\ lastCall.ledgers = 2
    /\ DOMAIN _inst = {}

-----------------------------------------------------------------------------
(* C8 *)

\* C8: when the genesis flag is set and root_profile.inject_or(BaseLedger)
\* returns None, provide() fails with the provider's typed error and nothing
\* is cached.
C8_MissingFallbackTypedError ==
    lastCall.root_injected = <<None>> =>
        /\ lastCall.outcome \in ConfigurationErrors
        /\ DOMAIN _inst = {}

-----------------------------------------------------------------------------
(* C9 *)

\* C9: when the construction pass reaches ClassLoader.load_class and the
\* manager class cannot be resolved, the call fails with InjectionError, no
\* manager is constructed and self._inst gets no entry; InjectionError has
\* no other cause.
C9_UnknownManagerType ==
    /\ (/\ ReadSettings
        /\ lastCall.outcome \notin {"AttributeError", "KeyError"}
        /\ ManagerKey \notin loadable)
           => /\ lastCall.outcome = "InjectionError"
              /\ lastCall.result = None
              /\ lastCall.loads = 1
              /\ lastCall.managers = 0
              /\ ~InCache(_inst, ManagerKey)
    /\ lastCall.outcome = "InjectionError" => ManagerKey \notin loadable

\* Resolution failed after both ledgers of the list and the startup ledger
\* had been registered.
C9_Witness ==
    /\ lastCall.outcome = "InjectionError"
    /\ lastCall.ledgers = 2
    /\ lastCall.root_injected = <<StartupLedger>>

-----------------------------------------------------------------------------
(* C10 *)

\* C10: under sequential calls an entry of self._inst, once present, is
\* never removed and never replaced by another manager object.
C10_CacheMonotonic ==
    [][\A k \in DOMAIN _inst :
          /\ k \in DOMAIN _inst'
          /\ _inst'[k].obj = _inst[k].obj]_vars

\* The second construction pass populated the dict and a later call found
\* the entry.
C10_Witness ==
    /\ CacheHit /\ nbuild = 2
    /\ InCache(_inst, ManagerKey) /\ _inst[ManagerKey].obj = <<2, 0>>
-----------------------------------------------------------------------------
(* C11 *)

\* C11: a provide() call made while the manager for the variant's key is in
\* self._inst returns that manager without reading a setting, looking up the
\* injector, asking the root profile for the startup ledger, loading a class
\* or constructing a pool, ledger or manager, and leaves self._inst alone.
C11_CachedCallHasNoEffects ==
    [][(/\ manager_type(root_profile) # None
        /\ ManagerKey \in DOMAIN _inst
        /\ lastCall' # lastCall)
          => /\ lastCall'.outcome = "ok"
             /\ lastCall'.result = _inst[ManagerKey]
             /\ NoEffects'
             /\ _inst' = _inst
             /\ nbuild' = nbuild]_vars

\* A call has found the manager built from two entries and the startup
\* ledger, after the startup ledger was unbound again.
C11_Witness ==
    /\ CacheHit /\ NoEffects
    /\ Len(lastCall.result.production_ledgers)
         + Len(lastCall.result.non_production_ledgers) = 3
    /\ rootLedger = None
-----------------------------------------------------------------------------
(* C13 *)

\* The index of the last entry of the list with is_write.
LastWriteIndex(list) ==
    CHOOSE i \in 1..Len(list) :
        /\ list[i].is_write
        /\ \A j \in (i + 1)..Len(list) : ~list[j].is_write

\* Nothing but the list stands in the way of the construction pass: the
\* startup ledger is bound if asked for and the manager class resolves.
EnvironmentReady ==
    /\ lastCall.root_injected # <<None>>
    /\ ManagerKey \in loadable

\* C13: when entries have is_write (one or several), the construction pass
\* does not fail on their account and the write designation is the id and
\* the instance of the last such entry in list order, whatever the entries'
\* is_production.
C13_LastWriteEntryWins ==
    (ReadSettings /\ HasWriteEntry(CallList) /\ EnvironmentReady)
        => /\ BuiltManager
           /\ LET i == LastWriteIndex(CallList)
                  w == lastCall.result.write_ledger_info
              IN  /\ w.id = CallList[i].id
                  /\ w.instance.obj = <<lastCall.result.obj[1], i>>
                  /\ w.instance.class = LedgerClass(manager_type(root_profile).type)

\* Two write entries, a production one followed by a non-production one: the
\* second is the write ledger.
C13_Witness ==
    /\ BuiltManager
    /\ Len(CallList) = 2
    /\ CallList[1].is_write /\ CallList[1].is_production
    /\ CallList[2].is_write /\ ~CallList[2].is_production
    /\ CallList[1].id # CallList[2].id
    /\ lastCall.result.write_ledger_info.id = CallList[2].id
-----------------------------------------------------------------------------
(* C14 *)

\* k is an id of the form "startup::" + <pool name>.
IsStartupKey(k) == \E name \in PoolNames : k = "startup::" \o name

AllKeys(manager) ==
    KeySet(manager.production_ledgers)
        \cup KeySet(manager.non_production_ledgers)

AllValues(manager) ==
    {manager.production_ledgers[j].value :
        j \in 1..Len(manager.production_ledgers)}
    \cup {manager.non_production_ledgers[j].value :
            j \in 1..Len(manager.non_production_ledgers)}

\* The write designation is None exactly when the list has no write entry,
\* and a non-production entry that is the list's last write entry is the
\* write designation and a key of the non-production partition.
WriteWithoutGenesis(manager, list) ==
    /\ manager.write_ledger_info = None <=> ~HasWriteEntry(list)
    /\ (HasWriteEntry(list)
          /\ ~list[LastWriteIndex(list)].is_production)
           => /\ manager.write_ledger_info.id = list[LastWriteIndex(list)].id
              /\ manager.write_ledger_info.instance.obj
                     = <<manager.obj[1], LastWriteIndex(list)>>
              /\ HasKey(manager.non_production_ledgers,
                        manager.write_ledger_info.id)
              /\ DistinctIds(list) =>
                    /\ ~HasKey(manager.production_ledgers,
                               manager.write_ledger_info.id)
                    /\ Lookup(manager.non_production_ledgers,
                              manager.write_ledger_info.id)
                           = manager.write_ledger_info.instance

-----------------------------------------------------------------------------
(* C17 *)

\* The write designation, when there is one, is a key of exactly one
\* partition, which maps it to the designated instance; the startup ledger as
\* write designation lies in the production partition.
WriteConsistent(manager) ==
    LET w == manager.write_ledger_info
        P == manager.production_ledgers
        N == manager.non_production_ledgers
    IN  w # None =>
           /\ HasKey(P, w.id) # HasKey(N, w.id)
           /\ HasKey(P, w.id) => Lookup(P, w.id) = w.instance
           /\ HasKey(N, w.id) => Lookup(N, w.id) = w.instance
           /\ w.instance = StartupLedger => HasKey(P, w.id)

\* C17 as stated: in every manager built from a list with pairwise distinct
\* ids the write designation is consistent with the partitions.
C17_WriteConsistentDistinctIds ==
    (BuiltManager /\ DistinctIds(CallList))
        => WriteConsistent(lastCall.result)

\* C17 amended: the same, for lists with pairwise distinct ids none of which
\* is the synthetic id of the startup ledger when the genesis flag is set.
C17_WriteConsistentNoIdClash ==
    (BuiltManager /\ DistinctIds(CallList) /\ NoIdClash)
        => WriteConsistent(lastCall.result)

\* The startup ledger became the write designation of a manager built from
\* two entries.
C17_Witness ==
    /\ BuiltManager /\ DistinctIds(CallList) /\ NoIdClash
    /\ Len(CallList) = 2 /\ CallGenesis
    /\ FallbackIsWrite(lastCall.result)
    /\ lastCall.result.production_ledgers[1].value = StartupLedger
-----------------------------------------------------------------------------
(* C18 *)

OtherProfile ==
    IF root_profile = "IndySdkProfile" THEN "AskarProfile"
    ELSE "IndySdkProfile"

\* What a fresh provider of the other variant makes of the settings the last
\* call read, in the same environment.
OtherVariantCall ==
    provide(OtherProfile, <<>>, lastCall.seen, AgentInjector, rootLedger,
            loadable, 1).call

WriteId(manager) ==
    IF manager.write_ledger_info = None THEN None
    ELSE [id |-> manager.write_ledger_info.id]

\* C18: for every list and genesis flag such that the flag is unset or some
\* entry has is_write, the basic and the askar-profile construction pass end
\* the same way when their manager classes resolve alike (in a manager, when
\* the startup ledger is bound if asked for and the class resolves) and give the same key sequences in both partitions
\* and the same write id.
C18_VariantsAgree ==
    (ReadSettings /\ (~CallGenesis \/ HasWriteEntry(CallList))) =>
        /\ (MANAGER_TYPES[manager_type(OtherProfile).type] \in loadable
              <=> ManagerKey \in loadable)
               => OtherVariantCall.outcome = lastCall.outcome
        /\ EnvironmentReady => lastCall.outcome = "ok"
        /\ lastCall.outcome = "ok" =>
              /\ Keys(OtherVariantCall.result.production_ledgers)
                     = Keys(lastCall.result.production_ledgers)
              /\ Keys(OtherVariantCall.result.non_production_ledgers)
                     = Keys(lastCall.result.non_production_ledgers)
              /\ WriteId(OtherVariantCall.result) = WriteId(lastCall.result)

\* An askar-profile manager built with the startup ledger behind a write
\* entry.
C18_Witness ==
    /\ BuiltManager /\ root_profile = "AskarProfile"
    /\ CallGenesis /\ HasWriteEntry(CallList) /\ Len(CallList) = 2
    /\ OtherVariantCall.outcome = "ok"
    /\ HasKey(lastCall.result.production_ledgers, FallbackId)
-----------------------------------------------------------------------------
(* C15 *)

\* The ledgers of a manager that were constructed from configuration entries.
EntryLedgers(manager) == AllValues(manager) \ {StartupLedger}

\* C15: a construction pass over a list of n entries makes exactly n
\* injector lookups and constructs exactly n pools and n ledgers, the i-th
\* for the i-th entry; the ledgers of a built manager are all objects of the
\* pass that built it, never of an earlier pass.
C15_OnePoolAndLedgerPerEntry ==
    /\ ReadSettings =>
          /\ lastCall.injects = Len(CallList)
          /\ lastCall.pools = Len(CallList)
          /\ lastCall.ledgers = Len(CallList)
    /\ BuiltManager =>
          /\ lastCall.result.obj = <<nbuild, 0>>
          /\ \A v \in EntryLedgers(lastCall.result) :
                /\ v.obj[1] = nbuild
                /\ v.obj[2] \in 1..Len(CallList)
                /\ v.pool.name = CallList[v.obj[2]].pool_name
          /\ \A i \in 1..Len(CallList) :
                LET d == IF CallList[i].is_production
                         THEN lastCall.result.production_ledgers
                         ELSE lastCall.result.non_production_ledgers
                IN  /\ HasKey(d, CallList[i].id)
                    /\ \/ Lookup(d, CallList[i].id) = StartupLedger
                       \/ CallList[Lookup(d, CallList[i].id).obj[2]].id
                              = CallList[i].id

\* The second construction pass built a manager from two entries after the
\* first pass had failed.
C15_Witness ==
    /\ BuiltManager /\ nbuild = 2
    /\ lastCall.ledgers = 2 /\ lastCall.injects = 2 /\ lastCall.pools = 2
    /\ Cardinality(EntryLedgers(lastCall.result)) = 2
-----------------------------------------------------------------------------
(* C16 *)

\* The exceptions that can leave a construction pass.
ConstructionFailures ==
    {"TypeError", "AttributeError", "KeyError", "InjectionError"}

\* The step is a provide() call that started a construction pass.
PassStarted == nbuild' = nbuild + 1

\* Nothing makes the pass recorded in lastCall fail, in the environment env
\* of the call: the list is set, the startup ledger is bound if asked for
\* and, on an askar profile, does not have to claim the write designation,
\* and the manager class resolves.
FailureCausesRemoved ==
    /\ ReadSettings
    /\ CallGenesis => /\ rootLedger # None
                      /\ root_profile = "AskarProfile"
                            => HasWriteEntry(CallList)
    /\ ManagerKey \in loadable

\* C16: after a call that failed during construction self._inst has no entry
\* for the key, and the next call starts a new construction pass that reads
\* the settings again and returns (and stores) its own manager when the
\* cause of the failure is gone.
C16_FailureNotMemoized ==
    [][lastCall.outcome \in ConstructionFailures =>
          /\ ~InCache(_inst, ManagerKey)
          /\ (lastCall' # lastCall \/ nbuild' # nbuild) =>
                /\ PassStarted
                /\ lastCall'.reads # <<>>
                /\ lastCall'.reads[1] = ConfigListKey
                /\ FailureCausesRemoved' =>
                      /\ BuiltManager'
                      /\ lastCall'.result.obj = <<nbuild', 0>>
                      /\ _inst'[ManagerKey] = lastCall'.result]_vars

\* A second pass returned a manager holding the startup ledger, which the
\* first pass cannot have found bound or resolvable.
C16_Witness ==
    /\ BuiltManager /\ nbuild = 2 /\ CallGenesis
    /\ lastCall.root_injected = <<StartupLedger>>
    /\ lastCall.result.obj = <<2, 0>>

\* The threads whose own construction pass stored a manager: each of them
\* found no manager at line 59, so none had been stored when it tested.
Builders == {t \in Threads : callers[t].built # NoObject}

\* The manager objects constructed by the threads.
BuiltObjects == {callers[t].built : t \in Builders}

\* The thread whose assignment to self._inst came last.
LastWriter == CHOOSE t \in Builders : \A u \in Builders : callers[u].built[1] <= callers[t].built[1]

\* C12: when two provide() calls on one provider both test self._inst
\* before either stores a manager, each constructs a manager of its own, the
\* two managers are distinct objects, self._inst holds the one stored last,
\* and each caller returns what self._inst holds when it reaches line 163:
\* its own manager or the one stored after it, so the two callers can
\* receive different instances.
C12_RaceLastWriteWins ==
    Builders = Threads =>
        /\ Cardinality(BuiltObjects) = Cardinality(Threads)
        /\ _inst[ManagerKey].obj = callers[LastWriter].built
        /\ \A t \in Threads :
              callers[t].pc = "done" =>
                 /\ callers[t].returned \in BuiltObjects
                 /\ callers[t].returned[1] >= callers[t].built[1]

\* Both threads constructed a manager and returned different objects: the
\* first returned its own before the second stored, the second returned
\* the one self._inst ends holding.
C12_Witness ==
    /\ Builders = Threads
    /\ \A t \in Threads : callers[t].pc = "done"
    /\ callers["t1"].returned # callers["t2"].returned
    /\ _inst[ManagerKey].obj = callers[LastWriter].built

====
